---- MODULE Spec2Model ----
(***************************************************************************)
(* Model of wasm/src/core/module.rs: the binary decoder's section loop     *)
(* (RawModule::read) and the instantiation pipeline                        *)
(* (Module::resolve_raw_module), driven by Module::load_module_from_path,  *)
(* and the store accessors of the instantiated Module.                     *)
(***************************************************************************)
EXTENDS Integers, Sequences, FiniteSets, TLC

VARIABLES
    file,                 \* the octet source: header bytes and the sections that follow
    payload,              \* what the file's section bodies encode, per RawModule field
    resolver,             \* the host resolver: its answer to the i-th import
    access,               \* the store access the interpreter makes on the Module (or None)
    pc,                   \* position of load_module_from_path
    pos,                  \* reader position: sections consumed so far
    current_section_type, \* Option<SectionType> of RawModule::read
    module_builder,       \* section types handed to process_section, in order
    raw_module,           \* the RawModule read returned (None before)
    ret_module,           \* the Module under construction in resolve_raw_module
    entities,             \* what the writes left in each table and memory written to
    trace,                \* collaborator calls, borrows and completed steps, in order
    result                \* what load_module_from_path returned

vars == <<file, payload, resolver, access, pc, pos, current_section_type,
          module_builder, raw_module, ret_module, entities, trace, result>>

----------------------------------------------------------------------------
(* Bounds of the model *)

MaxSections == 3   \* sections in a file whose layout is varied
MaxImports == 2    \* imports of a module whose imports are varied
MaxLocals == 2     \* local definitions per kind
MaxExports == 2    \* exports of a module whose exports are varied
MaxSegments == 2   \* element segments, and data segments
MaxGlobals == 2    \* global definitions whose initializers are varied
MaxIndex == 2      \* the greatest index a store access is made with

SeqsUpTo(S, n) == UNION {[1..k -> S] : k \in 0..n}

----------------------------------------------------------------------------
(* Option and Result values *)

None == <<>>
Some(x) == <<x>>

Ok(v) == [kind |-> "Ok", value |-> v]
Err(msg) == [kind |-> "Err", msg |-> msg]
Panic(msg) == [kind |-> "Panic", msg |-> msg]
NoResult == [kind |-> "Running"]

----------------------------------------------------------------------------
(* RawModule::read *)

HEADER_LENGTH == 8
EXPECTED_HEADER == <<0, 97, 115, 109, 1, 0, 0, 0>>

CustomSection == 0
TypeSection == 1
ImportSection == 2
FunctionSection == 3
TableSection == 4
MemorySection == 5
GlobalSection == 6
ExportSection == 7
StartSection == 8
ElementSection == 9
CodeSection == 10
DataSection == 11

\* ModuleBuilder::read_next_section_header: the next section's type, or an
\* error at the end of the input and on a byte that names no section type.
read_next_section_header(sections, p) ==
    IF p >= Len(sections) THEN Err("end of input")
    ELSE IF sections[p + 1].id \notin CustomSection..DataSection
         THEN Err("invalid section type")
         ELSE Ok(sections[p + 1].id)

\* ModuleBuilder::get_next_section_type: the successor in canonical order.
get_next_section_type(t) ==
    IF t < DataSection THEN Some(t + 1) ELSE None

\* ModuleBuilder::process_section: decode the body; a malformed body is an error.
process_section(builder, section) ==
    IF section.body = "bad"
    THEN [res |-> Err("malformed section"), builder |-> builder]
    ELSE [res |-> Ok(section.id), builder |-> Append(builder, section.id)]

\* ScopedReader::is_at_end after the section's decoder ran.
is_at_end(section) ==
    section.id = CustomSection \/ section.body # "short"

\* An order loop that moves to the successor of a section it processed.
RECURSIVE ExpectLoopAdvancing(_, _, _)
ExpectLoopAdvancing(cur, builder, section) ==
    IF cur = None
    THEN [cur |-> None, res |-> Ok("no match"), builder |-> builder]
    ELSE IF cur[1] = section.id
         THEN LET p == process_section(builder, section)
              IN  [cur |-> IF p.res.kind = "Ok"
                           THEN get_next_section_type(cur[1]) ELSE Some(cur[1]),
                   res |-> p.res, builder |-> p.builder]
         ELSE ExpectLoopAdvancing(get_next_section_type(cur[1]), builder, section)

\* The `while let Some(expected_section_type) = current_section_type` loop.
RECURSIVE ExpectLoop(_, _, _)
ExpectLoop(cur, builder, section) ==
    IF cur = None
    THEN [cur |-> None, res |-> Ok("no match"), builder |-> builder]
    ELSE IF cur[1] = section.id
         THEN LET p == process_section(builder, section)
              IN  [cur |-> Some(cur[1]), res |-> p.res, builder |-> p.builder]
         ELSE ExpectLoop(get_next_section_type(cur[1]), builder, section)

\* A section loop in which skipping a custom section moves the expected type on.
SectionBodyCustomAdvances(cur, builder, section) ==
    IF section.id = CustomSection
    THEN IF section.body = "bad"
         THEN [cur |-> cur, res |-> Err("malformed section"), builder |-> builder]
         ELSE [cur |-> IF cur = None THEN None ELSE get_next_section_type(cur[1]),
               res |-> Ok("skipped"), builder |-> builder]
    ELSE LET e == ExpectLoop(cur, builder, section)
         IN  IF e.res.kind = "Err" THEN e
             ELSE IF e.cur = None
                  THEN [e EXCEPT !.res = Panic("Sections are in unexpected order")]
                  ELSE e

\* One iteration of the section loop on a section whose header was read.
SectionBody(cur, builder, section) ==
    IF section.id = CustomSection
    THEN \* read_name()? then read_bytes_to_end()?
         IF section.body = "bad"
         THEN [cur |-> cur, res |-> Err("malformed section"), builder |-> builder]
         ELSE [cur |-> cur, res |-> Ok("skipped"), builder |-> builder]
    ELSE LET e == ExpectLoop(cur, builder, section)
         IN  IF e.res.kind = "Err" THEN e
             ELSE IF e.cur = None
                  THEN [e EXCEPT !.res = Panic("Sections are in unexpected order")]
                  ELSE e

SectionIteration(cur, builder, section) ==
    LET b == SectionBody(cur, builder, section)
    IN  IF b.res.kind # "Ok" THEN b
        ELSE IF ~is_at_end(section)
             THEN [b EXCEPT !.res = Panic("Failed to read whole section")]
             ELSE b

\* `reader.read_leb_u32()?` for the section length, then the rest of the
\* iteration; the input may end before the length does.
SectionLength(cur, builder, section) ==
    IF section.body = "truncated"
    THEN [cur |-> cur, res |-> Err("failed to read section length"), builder |-> builder]
    ELSE SectionIteration(cur, builder, section)

\* A header check that compares the magic and not the version.
HeaderMatchesMagic(header) == SubSeq(header, 1, 4) = SubSeq(EXPECTED_HEADER, 1, 4)

HeaderMatches(header) == header = EXPECTED_HEADER

\* The field of the RawModule each section type fills.
SectionOfField ==
    [types |-> TypeSection, imports |-> ImportSection, typeidx |-> FunctionSection,
     tables |-> TableSection, mems |-> MemorySection, globals |-> GlobalSection,
     exports |-> ExportSection, start |-> StartSection, elem |-> ElementSection,
     funcs |-> CodeSection, data |-> DataSection]

\* ModuleBuilder::make_module: a section never processed leaves its field empty.
make_module(builder, content) ==
    [f \in DOMAIN SectionOfField |->
        IF \E k \in 1..Len(builder) : builder[k] = SectionOfField[f]
        THEN content[f] ELSE <<>>]

EmptyModule ==
    [functions |-> <<>>, tables |-> <<>>, memories |-> <<>>, globals |-> <<>>,
     exports |-> <<>>, func_types |-> <<>>]

ReadHeader ==
    /\ pc = "read_header"
    /\ IF Len(file.header) < HEADER_LENGTH
       THEN /\ result' = Err("failed to fill whole buffer")
            /\ pc' = "done"
            /\ UNCHANGED <<current_section_type, module_builder>>
       ELSE IF ~HeaderMatches(file.header)
            THEN /\ result' = Err("Invalid module header")
                 /\ pc' = "done"
                 /\ UNCHANGED <<current_section_type, module_builder>>
            ELSE /\ current_section_type' = Some(TypeSection)
                 /\ module_builder' = <<>>
                 /\ pc' = "section_loop"
                 /\ UNCHANGED result
    /\ UNCHANGED <<file, payload, resolver, access, pos, raw_module, ret_module,
                   entities, trace>>

ReadSection ==
    /\ pc = "section_loop"
    /\ read_next_section_header(file.sections, pos).kind = "Ok"
    /\ LET it == SectionLength(current_section_type, module_builder,
                               file.sections[pos + 1])
       IN  /\ current_section_type' = it.cur
           /\ module_builder' = it.builder
           /\ IF it.res.kind = "Ok"
              THEN /\ pos' = pos + 1
                   /\ UNCHANGED <<pc, result>>
              ELSE /\ result' = it.res
                   /\ pc' = "done"
                   /\ UNCHANGED pos
    /\ UNCHANGED <<file, payload, resolver, access, raw_module, ret_module,
                   entities, trace>>

ReadEnd ==
    /\ pc = "section_loop"
    /\ read_next_section_header(file.sections, pos).kind = "Err"
    /\ raw_module' = Some(make_module(module_builder, payload))
    /\ ret_module' = EmptyModule
    /\ pc' = "resolve_imports"
    /\ UNCHANGED <<file, payload, resolver, access, pos, current_section_type,
                   module_builder, entities, trace, result>>

----------------------------------------------------------------------------
(* Module::resolve_raw_module and its steps.  Indices are zero-based as in
   the source; At(s, i) is s[i], which panics when i is out of bounds: the
   panic is recorded as the value OutOfBounds. *)

OutOfBounds == [origin |-> "panic", msg |-> "index out of bounds"]

At(s, i) == IF i < Len(s) THEN s[i + 1] ELSE OutOfBounds

\* What a step hands back: the module as it left it, the collaborator calls it
\* made, and its Result.
StepResult(m, tr, res) == [m |-> m, tr |-> tr, res |-> res]

HostHandle(id) == [origin |-> "host", id |-> id]

\* The table and memory arms of the match exchanged.
ResolverOpExchanged(desc) ==
    CASE desc = "TypeIdx" -> "resolve_function"
      [] desc = "TableType" -> "resolve_memory"
      [] desc = "MemType" -> "resolve_table"
      [] desc = "GlobalType" -> "resolve_global"

ResolverOp(desc) ==
    CASE desc = "TypeIdx" -> "resolve_function"
      [] desc = "TableType" -> "resolve_table"
      [] desc = "MemType" -> "resolve_memory"
      [] desc = "GlobalType" -> "resolve_global"

ImportField(desc) ==
    CASE desc = "TypeIdx" -> "functions"
      [] desc = "TableType" -> "tables"
      [] desc = "MemType" -> "memories"
      [] desc = "GlobalType" -> "globals"

\* resolve_imports putting each resolved handle in front of its sequence.
RECURSIVE resolve_imports_front(_, _, _, _, _, _)
resolve_imports_front(i, m, tr, imports, types, rsv) ==
    IF i > Len(imports) THEN StepResult(m, tr, Ok("imports"))
    ELSE LET import == imports[i]
             call == [ev |-> "resolve", op |-> ResolverOp(import.desc), import |-> i]
             fld == ImportField(import.desc)
         IN  IF import.desc = "TypeIdx" /\ import.type_index >= Len(types)
             THEN StepResult(m, tr, Err("Function import has invalid type index"))
             ELSE IF rsv[i] = "fail"
                  THEN StepResult(m, Append(tr, call), Err("import not found"))
                  ELSE resolve_imports_front(i + 1,
                           [m EXCEPT ![fld] = <<HostHandle(rsv[i])>> \o @],
                           Append(tr, call), imports, types, rsv)

\* Module::resolve_imports from the i-th import (one-based position) on.
RECURSIVE resolve_imports(_, _, _, _, _, _)
resolve_imports(i, m, tr, imports, types, rsv) ==
    IF i > Len(imports) THEN StepResult(m, tr, Ok("imports"))
    ELSE LET import == imports[i]
             call == [ev |-> "resolve", op |-> ResolverOp(import.desc), import |-> i]
             fld == ImportField(import.desc)
         IN  IF import.desc = "TypeIdx" /\ import.type_index >= Len(types)
             THEN StepResult(m, tr, Err("Function import has invalid type index"))
             ELSE IF rsv[i] = "fail"
                  THEN StepResult(m, Append(tr, call), Err("import not found"))
                  ELSE resolve_imports(i + 1,
                           [m EXCEPT ![fld] = Append(@, HostHandle(rsv[i]))],
                           Append(tr, call), imports, types, rsv)

\* typeidx.into_iter().zip(funcs.into_iter())
Zip(a, b) ==
    [k \in 1..(IF Len(a) < Len(b) THEN Len(a) ELSE Len(b)) |-> <<a[k], b[k]>>]

LocalCallable(j, ty, func) ==
    [origin |-> "local", kind |-> "func", def |-> j, ty |-> ty, body |-> func]

\* Module::add_functions from the j-th pair on.
RECURSIVE add_functions(_, _, _, _)
add_functions(j, m, functions, types) ==
    IF j > Len(functions) THEN StepResult(m, <<>>, Ok("functions"))
    ELSE LET type_idx == functions[j][1]
             func == functions[j][2]
         IN  IF type_idx >= Len(types)
             THEN StepResult(m, <<>>, Err("Function has invalid type index"))
             ELSE add_functions(j + 1,
                      [m EXCEPT !.functions =
                           Append(@, LocalCallable(j - 1, At(types, type_idx), func))],
                      functions, types)

LocalTable(j, table) == [origin |-> "local", kind |-> "table", def |-> j, ty |-> table]

\* Module::add_tables
add_tables(m, tables) ==
    StepResult(
        [m EXCEPT !.tables = @ \o [j \in 1..Len(tables) |-> LocalTable(j - 1, tables[j])]],
        <<>>, Ok("tables"))

LocalMemory(j, memory) == [origin |-> "local", kind |-> "mem", def |-> j, ty |-> memory]

\* Module::add_memories
add_memories(m, memories) ==
    StepResult(
        [m EXCEPT !.memories =
             @ \o [j \in 1..Len(memories) |-> LocalMemory(j - 1, memories[j])]],
        <<>>, Ok("memories"))

\* The value an imported global holds (the host's).
HostGlobalValue(id) == [ty |-> "i32", v |-> IF id = "h1" THEN 1 ELSE 2]

GlobalValue(g) == IF g.origin = "host" THEN HostGlobalValue(g.id) ELSE g.value

\* ConstantExpressionStore::global_idx for Module
global_idx(m, idx) ==
    IF idx < Len(m.globals)
    THEN Ok(At(m.globals, idx))
    ELSE Err("Global index out of range")

\* core::evaluate_constant_expression(expr, store, 1)
evaluate_constant_expression(expr, m) ==
    CASE expr.op = "i32.const" -> Ok(<<[ty |-> "i32", v |-> expr.c]>>)
      [] expr.op = "i64.const" -> Ok(<<[ty |-> "i64", v |-> expr.c]>>)
      [] expr.op = "global.get" ->
            LET g == global_idx(m, expr.idx)
            IN  IF g.kind = "Ok" THEN Ok(<<GlobalValue(g.value)>>) ELSE g
      [] OTHER -> Err("invalid constant expression")

\* RefCell::borrow / borrow_mut of a handle, and the drop of the Ref / RefMut,
\* as entries of the trace; `by` is the step that runs.
Borrow(mode, kind, handle, by) ==
    [ev |-> "borrow", mode |-> mode, kind |-> kind, handle |-> handle, by |-> by]

Release(mode, kind, handle, by) ==
    [ev |-> "release", mode |-> mode, kind |-> kind, handle |-> handle, by |-> by]

\* The borrows of one evaluate_constant_expression call: a global.get holds
\* the Ref global_idx returned while it reads the value, and drops it.
ConstantExpressionBorrows(expr, m, by) ==
    IF expr.op = "global.get" /\ global_idx(m, expr.idx).kind = "Ok"
    THEN <<Borrow("shared", "global", At(m.globals, expr.idx), by),
           Release("shared", "global", At(m.globals, expr.idx), by)>>
    ELSE <<>>

\* Global::new(global_type, value)
GlobalNew(j, global_type, value) ==
    IF value.ty = global_type
    THEN Ok([origin |-> "local", kind |-> "global", def |-> j,
             ty |-> global_type, value |-> value])
    ELSE Err("global type mismatch")

\* Module::add_globals from the j-th definition on.
RECURSIVE add_globals(_, _, _, _)
add_globals(j, m, tr, globals) ==
    IF j > Len(globals) THEN StepResult(m, tr, Ok("globals"))
    ELSE LET results == evaluate_constant_expression(globals[j].init_expr, m)
             borrows == ConstantExpressionBorrows(globals[j].init_expr, m, "add_globals")
         IN  IF results.kind = "Err" THEN StepResult(m, tr \o borrows, results)
             ELSE LET global == GlobalNew(j - 1, globals[j].global_type, results.value[1])
                  IN  IF global.kind = "Err" THEN StepResult(m, tr \o borrows, global)
                      ELSE add_globals(j + 1,
                               [m EXCEPT !.globals = Append(@, global.value)],
                               tr \o borrows, globals)

ExportKind(d) ==
    CASE d = "Func" -> "Function"
      [] d = "Table" -> "Table"
      [] d = "Mem" -> "Memory"
      [] d = "Global" -> "Global"

ExportItems(m, d) ==
    CASE d = "Func" -> m.functions
      [] d = "Table" -> m.tables
      [] d = "Mem" -> m.memories
      [] d = "Global" -> m.globals

\* A bounds check that lets the index items.len() through.
collect_single_export_off_by_one(idx, items) ==
    IF idx > Len(items) THEN Err("Export has invalid index") ELSE Ok(At(items, idx))

\* Module::collect_single_export
collect_single_export(idx, items) ==
    IF idx >= Len(items) THEN Err("Export has invalid index") ELSE Ok(At(items, idx))

\* An insert that keeps the entry a key already has.
InsertIfAbsent(map, key, value) ==
    [k \in (DOMAIN map) \cup {key} |-> IF k \in DOMAIN map THEN map[k] ELSE value]

\* HashMap::insert
Insert(map, key, value) ==
    [k \in (DOMAIN map) \cup {key} |-> IF k = key THEN value ELSE map[k]]

\* Module::collect_exports from the j-th export on.
RECURSIVE collect_exports(_, _, _)
collect_exports(j, m, exports) ==
    IF j > Len(exports) THEN StepResult(m, <<>>, Ok("exports"))
    ELSE LET nm == exports[j].nm
             d == exports[j].d
             item == collect_single_export(d.idx, ExportItems(m, d.kind))
         IN  IF item.kind = "Err" THEN StepResult(m, <<>>, item)
             ELSE collect_exports(j + 1,
                      [m EXCEPT !.exports =
                           Insert(@, nm, [kind |-> ExportKind(d.kind),
                                          handle |-> item.value])],
                      exports)

\* Module::add_func_types
add_func_types(m, func_types) ==
    StepResult([m EXCEPT !.func_types = func_types], <<>>, Ok("types"))

\* A validation that counts the tables and not the memories.
pre_execute_validate_tables_only(m) ==
    IF Len(m.tables) > 1 THEN Err("Too many tables") ELSE Ok("valid")

\* Module::pre_execute_validate
pre_execute_validate(m) ==
    IF Len(m.tables) > 1 THEN Err("Too many tables")
    ELSE IF Len(m.memories) > 1 THEN Err("Too many memoryies")
    ELSE Ok("valid")

\* An offset evaluation that takes the value of any result, i32 or not.
evaluate_offset_expression_untyped(m, expr) ==
    LET r == evaluate_constant_expression(expr, m)
    IN  IF r.kind = "Err" THEN r ELSE Ok(r.value[1].v)

\* Module::evaluate_offset_expression
evaluate_offset_expression(m, expr) ==
    LET r == evaluate_constant_expression(expr, m)
    IN  IF r.kind = "Err" THEN r
        ELSE IF r.value[1].ty = "i32" THEN Ok(r.value[1].v)
             ELSE Err("Type mismatch in offset expression")

\* The map over element.func_indices(), collected into a Result.
ElementFunctions(m, func_indices) ==
    IF \E k \in 1..Len(func_indices) : func_indices[k] >= Len(m.functions)
    THEN Err("Function index out of range")
    ELSE Ok([k \in 1..Len(func_indices) |-> At(m.functions, func_indices[k])])

\* An initializer that takes the table's RefMut before it evaluates the offset.
initialize_table_element_borrow_first(m, element) ==
    IF element.table_idx >= Len(m.tables)
    THEN [res |-> Err("Table initializer table idx out of range"), tr |-> <<>>]
    ELSE LET by == "initialize_table_elements"
             table == At(m.tables, element.table_idx)
             taken == <<Borrow("exclusive", "table", table, by)>>
             dropped == <<Release("exclusive", "table", table, by)>>
             offset == evaluate_offset_expression(m, element.expr)
             borrows == ConstantExpressionBorrows(element.expr, m, by)
             functions == ElementFunctions(m, element.func_indices)
         IN  IF offset.kind = "Err"
             THEN [res |-> offset, tr |-> taken \o borrows \o dropped]
             ELSE IF functions.kind = "Err"
             THEN [res |-> functions, tr |-> taken \o borrows \o dropped]
             ELSE [res |-> Ok("element"),
                   tr |-> taken \o borrows
                          \o <<[ev |-> "set_entries", target |-> table,
                                offset |-> offset.value, payload |-> functions.value]>>
                          \o dropped]

\* Module::initialize_table_element: the Result, the borrows and the
\* Table::set_entries call.
initialize_table_element(m, element) ==
    IF element.table_idx >= Len(m.tables)
    THEN [res |-> Err("Table initializer table idx out of range"), tr |-> <<>>]
    ELSE LET by == "initialize_table_elements"
             table == At(m.tables, element.table_idx)
             offset == evaluate_offset_expression(m, element.expr)
             borrows == ConstantExpressionBorrows(element.expr, m, by)
             functions == ElementFunctions(m, element.func_indices)
         IN  IF offset.kind = "Err" THEN [res |-> offset, tr |-> borrows]
             ELSE IF functions.kind = "Err" THEN [res |-> functions, tr |-> borrows]
             ELSE [res |-> Ok("element"),
                   tr |-> borrows
                          \o <<Borrow("exclusive", "table", table, by),
                                [ev |-> "set_entries", target |-> table,
                                 offset |-> offset.value, payload |-> functions.value],
                                Release("exclusive", "table", table, by)>>]

\* An element loop that goes on to the next segment when one fails.
RECURSIVE initialize_table_elements_lenient(_, _, _, _)
initialize_table_elements_lenient(j, m, tr, elem) ==
    IF j > Len(elem) THEN StepResult(m, tr, Ok("elements"))
    ELSE LET r == initialize_table_element(m, elem[j])
         IN  initialize_table_elements_lenient(j + 1, m, tr \o r.tr, elem)

\* Module::initialize_table_elements from the j-th segment on.
RECURSIVE initialize_table_elements(_, _, _, _)
initialize_table_elements(j, m, tr, elem) ==
    IF j > Len(elem) THEN StepResult(m, tr, Ok("elements"))
    ELSE LET r == initialize_table_element(m, elem[j])
         IN  IF r.res.kind = "Err" THEN StepResult(m, tr \o r.tr, r.res)
             ELSE initialize_table_elements(j + 1, m, tr \o r.tr, elem)

PAGE_SIZE == 65536

\* The size in bytes of a memory: Memory::new(MemType) allocates min pages;
\* a memory of the host's holds one page.
MemorySize(memory) ==
    IF memory.origin = "host" THEN PAGE_SIZE ELSE memory.ty.min * PAGE_SIZE

\* Memory::set_data(offset, data): fails when the data does not fit.
set_data(memory, offset, data) ==
    IF offset + Len(data) > MemorySize(memory)
    THEN Err("data segment does not fit") ELSE Ok("written")

\* Module::initialize_memory_data: the Result, the borrows and the
\* Memory::set_data call.
initialize_memory_data(m, data) ==
    IF data.mem_idx >= Len(m.memories)
    THEN [res |-> Err("Memory initializer mem idx out of range"), tr |-> <<>>]
    ELSE LET by == "initialize_memory"
             memory == At(m.memories, data.mem_idx)
             offset == evaluate_offset_expression(m, data.expr)
             borrows == ConstantExpressionBorrows(data.expr, m, by)
         IN  IF offset.kind = "Err" THEN [res |-> offset, tr |-> borrows]
             ELSE LET w == set_data(memory, offset.value, data.bytes)
                  IN  [res |-> IF w.kind = "Err" THEN w ELSE Ok("data"),
                       tr |-> borrows
                              \o <<Borrow("exclusive", "mem", memory, by),
                                    [ev |-> "set_data", target |-> memory,
                                     offset |-> offset.value, payload |-> data.bytes,
                                     applied |-> w.kind = "Ok"],
                                    Release("exclusive", "mem", memory, by)>>]

\* Module::initialize_memory from the j-th segment on.
RECURSIVE initialize_memory(_, _, _, _)
initialize_memory(j, m, tr, data) ==
    IF j > Len(data) THEN StepResult(m, tr, Ok("data"))
    ELSE LET r == initialize_memory_data(m, data[j])
         IN  IF r.res.kind = "Err" THEN StepResult(m, tr \o r.tr, r.res)
             ELSE initialize_memory(j + 1, m, tr \o r.tr, data)

----------------------------------------------------------------------------
(* Module::resolve_raw_module: the pipeline, one action per step *)

Raw == raw_module[1]

StepDone(name) == [ev |-> "step", name |-> name]

\* The entity a write goes to, and the cells it fills.
WriteKind(e) == IF e.ev = "set_entries" THEN "table" ELSE "mem"

WriteApplied(e) == e.ev = "set_entries" \/ (e.ev = "set_data" /\ e.applied)

WriteCells(e) ==
    [i \in e.offset..(e.offset + Len(e.payload) - 1) |-> e.payload[i - e.offset + 1]]

\* Table::set_entries / Memory::set_data on the entity behind the handle: the
\* cells written replace what was there; a set_data that failed wrote nothing.
ApplyWrite(ents, e) ==
    LET key == <<WriteKind(e), e.target>>
        old == IF key \in DOMAIN ents THEN ents[key] ELSE <<>>
    IN  (key :> (WriteCells(e) @@ old)) @@ ents

RECURSIVE ApplyWrites(_, _, _)
ApplyWrites(ents, tr, k) ==
    IF k > Len(tr) THEN ents
    ELSE ApplyWrites(IF tr[k].ev \in {"set_entries", "set_data"} /\ WriteApplied(tr[k])
                     THEN ApplyWrite(ents, tr[k]) ELSE ents,
                     tr, k + 1)

\* A step whose Result is dropped: the pipeline goes on after an error.
StepErrorDropped(from, to, r) ==
    /\ pc = from
    /\ ret_module' = r.m
    /\ entities' = ApplyWrites(entities, r.tr, 1)
    /\ pc' = to
    /\ trace' = IF r.res.kind = "Ok" THEN trace \o r.tr \o <<StepDone(from)>>
                 ELSE trace \o r.tr
    /\ UNCHANGED <<file, payload, resolver, access, pos, current_section_type,
                   module_builder, raw_module, result>>

\* A step that undoes its writes when it fails.
StepRollback(from, to, r) ==
    /\ pc = from
    /\ ret_module' = r.m
    /\ IF r.res.kind = "Ok"
       THEN /\ pc' = to
            /\ entities' = ApplyWrites(entities, r.tr, 1)
            /\ trace' = trace \o r.tr \o <<StepDone(from)>>
            /\ UNCHANGED result
       ELSE /\ pc' = "done"
            /\ entities' = entities
            /\ trace' = trace \o r.tr
            /\ result' = r.res
    /\ UNCHANGED <<file, payload, resolver, access, pos, current_section_type,
                   module_builder, raw_module>>

\* A step followed by `?`: an error ends resolve_raw_module with that error.
Step(from, to, r) ==
    /\ pc = from
    /\ ret_module' = r.m
    /\ entities' = ApplyWrites(entities, r.tr, 1)
    /\ IF r.res.kind = "Ok"
       THEN /\ pc' = to
            /\ trace' = trace \o r.tr \o <<StepDone(from)>>
            /\ UNCHANGED result
       ELSE /\ pc' = "done"
            /\ trace' = trace \o r.tr
            /\ result' = r.res
    /\ UNCHANGED <<file, payload, resolver, access, pos, current_section_type,
                   module_builder, raw_module>>

ResolveImports ==
    Step("resolve_imports", "add_functions",
         resolve_imports(1, ret_module, <<>>, Raw.imports, Raw.types, resolver))

AddFunctions ==
    Step("add_functions", "add_tables",
         add_functions(1, ret_module, Zip(Raw.typeidx, Raw.funcs), Raw.types))

AddTables ==
    Step("add_tables", "add_memories", add_tables(ret_module, Raw.tables))

AddMemories ==
    Step("add_memories", "add_globals", add_memories(ret_module, Raw.mems))

AddGlobals ==
    Step("add_globals", "collect_exports", add_globals(1, ret_module, <<>>, Raw.globals))

CollectExports ==
    Step("collect_exports", "add_func_types", collect_exports(1, ret_module, Raw.exports))

AddFuncTypes ==
    Step("add_func_types", "pre_execute_validate", add_func_types(ret_module, Raw.types))

PreExecuteValidate ==
    Step("pre_execute_validate", "initialize_table_elements",
         StepResult(ret_module, <<>>, pre_execute_validate(ret_module)))

InitializeTableElements ==
    Step("initialize_table_elements", "initialize_memory",
         initialize_table_elements(1, ret_module, <<>>, Raw.elem))

InitializeMemory ==
    Step("initialize_memory", "start", initialize_memory(1, ret_module, <<>>, Raw.data))

\* The Result of the call dropped.
StartResultDropped(traps, m) == Ok(m)

\* `start.borrow().call(&mut stack, &mut ret_module)?` then `Ok(ret_module)`.
StartResult(traps, m) == IF traps THEN Err("trap") ELSE Ok(m)

\* `if let Some(start) = module.start { ... }` and the final Ok(ret_module).
\* Callable::call is the interpreter's: it returns or traps.
RunStart ==
    /\ pc = "start"
    /\ pc' = "done"
    /\ IF Raw.start = None
       THEN /\ result' = Ok(ret_module)
            /\ trace' = Append(trace, StepDone("start"))
       ELSE IF Raw.start[1] >= Len(ret_module.functions)
            THEN /\ result' = Err("Start function not found")
                 /\ UNCHANGED trace
            ELSE \E traps \in BOOLEAN :
                    LET start == At(ret_module.functions, Raw.start[1])
                        call == <<Borrow("shared", "func", start, "start"),
                                  [ev |-> "call", callee |-> start,
                                   stack |-> <<>>, traps |-> traps],
                                  Release("shared", "func", start, "start")>>
                    IN  /\ result' = StartResult(traps, ret_module)
                        /\ trace' = IF result'.kind = "Ok"
                                     THEN trace \o call \o <<StepDone("start")>>
                                     ELSE trace \o call
    /\ UNCHANGED <<file, payload, resolver, access, pos, current_section_type,
                   module_builder, raw_module, ret_module, entities>>

----------------------------------------------------------------------------
(* impl ExpressionStore for Module: the accessors the interpreter reaches the
   store through.  An accessor hands back the entry (a Ref or RefMut of it)
   and the store as it left it. *)

Accessed(m, entry, borrow) == StepResult(m, <<>>, Ok([entry |-> entry, borrow |-> borrow]))

global_idx_mut(m, idx) ==
    IF idx < Len(m.globals) THEN Accessed(m, At(m.globals, idx), "borrow_mut")
    ELSE StepResult(m, <<>>, Err("Global index out of range"))

func_type_idx(m, idx) ==
    IF idx < Len(m.func_types) THEN Accessed(m, At(m.func_types, idx), "reference")
    ELSE StepResult(m, <<>>, Err("FuncType index out of range"))

table_idx(m, idx) ==
    IF idx < Len(m.tables) THEN Accessed(m, At(m.tables, idx), "borrow")
    ELSE StepResult(m, <<>>, Err("Table index out of range"))

callable_idx(m, idx) ==
    IF idx < Len(m.functions) THEN Accessed(m, At(m.functions, idx), "borrow")
    ELSE StepResult(m, <<>>, Err("Callable index out of range"))

\* A memory accessor that reads the table sequence.
mem_idx_of_tables(m, idx) ==
    IF idx < Len(m.tables) THEN Accessed(m, At(m.tables, idx), "borrow")
    ELSE StepResult(m, <<>>, Err("Memory index out of range"))

mem_idx(m, idx) ==
    IF idx < Len(m.memories) THEN Accessed(m, At(m.memories, idx), "borrow")
    ELSE StepResult(m, <<>>, Err("Memory index out of range"))

mem_idx_mut(m, idx) ==
    IF idx < Len(m.memories) THEN Accessed(m, At(m.memories, idx), "borrow_mut")
    ELSE StepResult(m, <<>>, Err("Memory index out of range"))

\* ConstantExpressionStore::global_idx, as the interpreter calls it.
global_idx_ref(m, idx) ==
    LET g == global_idx(m, idx)
    IN  IF g.kind = "Ok" THEN Accessed(m, g.value, "borrow") ELSE StepResult(m, <<>>, g)

AccessorNames ==
    {"global_idx", "global_idx_mut", "func_type_idx", "table_idx", "callable_idx",
     "mem_idx", "mem_idx_mut"}

StoreAccess(op, m, idx) ==
    CASE op = "global_idx" -> global_idx_ref(m, idx)
      [] op = "global_idx_mut" -> global_idx_mut(m, idx)
      [] op = "func_type_idx" -> func_type_idx(m, idx)
      [] op = "table_idx" -> table_idx(m, idx)
      [] op = "callable_idx" -> callable_idx(m, idx)
      [] op = "mem_idx" -> mem_idx(m, idx)
      [] op = "mem_idx_mut" -> mem_idx_mut(m, idx)

\* The interpreter, handed the instantiated Module, makes its store access.
CallAccessor ==
    /\ pc = "done"
    /\ result.kind = "Ok"
    /\ access # None
    /\ LET r == StoreAccess(access[1].op, ret_module, access[1].idx)
       IN  /\ ret_module' = r.m
           /\ trace' = Append(trace, [ev |-> "access", op |-> access[1].op,
                                      idx |-> access[1].idx, res |-> r.res])
    /\ access' = None
    /\ UNCHANGED <<file, payload, resolver, pc, pos, current_section_type,
                   module_builder, raw_module, entities, result>>

----------------------------------------------------------------------------
(* The inputs: files, the modules they encode, and resolvers *)

EmptyContent ==
    [types |-> <<>>, imports |-> <<>>, typeidx |-> <<>>, tables |-> <<>>,
     mems |-> <<>>, globals |-> <<>>, exports |-> <<>>, start |-> None,
     elem |-> <<>>, funcs |-> <<>>, data |-> <<>>]

\* The sections of a well-formed file that encodes `content`.
CanonicalSections(content) ==
    LET present(id) == \E f \in DOMAIN SectionOfField :
                          SectionOfField[f] = id /\ content[f] # <<>>
        ids == SelectSeq([id \in 1..DataSection |-> id], present)
    IN  [k \in 1..Len(ids) |-> [id |-> ids[k], body |-> "ok"]]

WellFormedFile(content) ==
    [header |-> EXPECTED_HEADER, sections |-> CanonicalSections(content)]

AllResolve(content) == [i \in 1..Len(content.imports) |-> "h1"]

FuncImport(t) == [desc |-> "TypeIdx", type_index |-> t]
TableImport == [desc |-> "TableType"]
MemImport == [desc |-> "MemType"]
GlobalImport == [desc |-> "GlobalType"]

I32Const(c) == [op |-> "i32.const", c |-> c]
I64Const(c) == [op |-> "i64.const", c |-> c]
GlobalGet(i) == [op |-> "global.get", idx |-> i]

Bodies == <<"f0", "f1", "f2", "f3">>
Prefix(s, n) == SubSeq(s, 1, n)

\* Files whose header and section layout vary; the bodies encode one small module.
LayoutContent ==
    [EmptyContent EXCEPT !.types = <<"T0">>, !.imports = <<FuncImport(0)>>,
                         !.mems = <<[min |-> 1]>>]

Headers ==
    {EXPECTED_HEADER,
     <<0, 97, 115, 110, 1, 0, 0, 0>>,
     <<0, 97, 115, 109, 2, 0, 0, 0>>,
     <<0, 97, 115, 109>>}

\* A byte that names no section type.
UnknownSectionId == DataSection + 1

LayoutSectionIds ==
    {CustomSection, TypeSection, ImportSection, MemorySection, UnknownSectionId}

\* A file layout: section types in any order, at most one section defective
\* (the decoder stops at the first defect, so a second one is never read).
LayoutSections ==
    UNION {{[k \in 1..Len(ids) |->
                [id |-> ids[k], body |-> IF k = d.at THEN d.body ELSE "ok"]] :
              d \in {[at |-> 0, body |-> "ok"]}
                     \cup [at : 1..Len(ids), body : {"short", "bad", "truncated"}]} :
           ids \in SeqsUpTo(LayoutSectionIds, MaxSections)}

InitLayout ==
    \E h \in Headers, ss \in LayoutSections :
        /\ file = [header |-> h, sections |-> IF Len(h) < HEADER_LENGTH THEN <<>> ELSE ss]
        /\ payload = LayoutContent
        /\ resolver = AllResolve(LayoutContent)
        /\ access = None

\* A module with n local functions and globals, nt local tables and nm local
\* memories.
ImportDescs == {FuncImport(0), FuncImport(1), TableImport, MemImport, GlobalImport}

ImportContent(imports, n, nt, nm) ==
    [EmptyContent EXCEPT
        !.types = <<"T0">>, !.imports = imports,
        !.typeidx = [j \in 1..n |-> 0], !.funcs = Prefix(Bodies, n),
        !.tables = [j \in 1..nt |-> [min |-> j]],
        !.mems = [j \in 1..nm |-> [min |-> j]],
        !.globals = [j \in 1..n |-> [global_type |-> "i32", init_expr |-> I32Const(j)]]]

\* Modules whose imports, resolver answers and local function and global
\* counts vary, with or without a local table and memory.
InitImports ==
    \E k \in 0..MaxImports, n \in 0..MaxLocals, nt \in {0, 1} :
        \E imports \in [1..k -> ImportDescs], r \in [1..k -> {"fail", "h1", "h2"}] :
            /\ payload = ImportContent(imports, n, nt, nt)
            /\ file = WellFormedFile(payload)
            /\ resolver = r
            /\ access = None

\* Modules without imports whose local definition counts vary per kind.
InitLocals ==
    \E n \in 0..MaxLocals, nt \in 0..MaxLocals, nm \in 0..MaxLocals :
        /\ payload = ImportContent(<<>>, n, nt, nm)
        /\ file = WellFormedFile(payload)
        /\ resolver = <<>>
        /\ access = None

\* Modules whose exports vary, over a store with two functions and two globals
\* (one imported, one local each), one table and one memory.
ExportStore ==
    [EmptyContent EXCEPT
        !.types = <<"T0">>, !.imports = <<FuncImport(0), GlobalImport>>,
        !.typeidx = <<0>>, !.funcs = <<"f0">>,
        !.tables = <<[min |-> 1]>>, !.mems = <<[min |-> 1]>>,
        !.globals = <<[global_type |-> "i32", init_expr |-> I32Const(7)]>>]

ExportNames == {"a", "b"}

Exports ==
    [nm : ExportNames, d : [kind : {"Func", "Table", "Mem", "Global"}, idx : 0..2]]

InitExports ==
    \E k \in 0..MaxExports :
        \E e \in [1..k -> Exports] :
            /\ payload = [ExportStore EXCEPT !.exports = e]
            /\ file = WellFormedFile(payload)
            /\ resolver = <<"h1", "h2">>
            /\ access = None

\* Modules whose element segments, data segments and start function vary, over
\* a store with one imported global, one table, one memory and two functions.
SegmentStore ==
    [EmptyContent EXCEPT
        !.types = <<"T0">>, !.imports = <<GlobalImport>>,
        !.typeidx = <<0, 0>>, !.funcs = <<"f0", "f1">>,
        !.tables = <<[min |-> 4]>>, !.mems = <<[min |-> 1]>>]

Elements ==
    {[table_idx |-> 0, expr |-> I32Const(2), func_indices |-> <<1, 0>>],
     [table_idx |-> 0, expr |-> GlobalGet(0), func_indices |-> <<0>>],
     [table_idx |-> 1, expr |-> I32Const(0), func_indices |-> <<0>>],
     [table_idx |-> 0, expr |-> I64Const(0), func_indices |-> <<0>>],
     [table_idx |-> 0, expr |-> I32Const(0), func_indices |-> <<0, 2>>]}

Datas ==
    {[mem_idx |-> 0, expr |-> I32Const(16), bytes |-> <<222, 173, 190, 239>>],
     [mem_idx |-> 0, expr |-> I32Const(PAGE_SIZE - 2), bytes |-> <<1, 2, 3>>],
     [mem_idx |-> 1, expr |-> I32Const(0), bytes |-> <<1>>],
     [mem_idx |-> 0, expr |-> GlobalGet(1), bytes |-> <<1>>],
     [mem_idx |-> 0, expr |-> I64Const(8), bytes |-> <<1, 2>>]}

\* The segments above that initialize without an error in a store with one
\* table, one memory, one global and two functions.
ElementSucceeds(element) ==
    /\ element.table_idx = 0
    /\ element.expr \in {I32Const(2), I32Const(0), GlobalGet(0)}
    /\ \A k \in 1..Len(element.func_indices) : element.func_indices[k] < 2

DataSucceeds(data) ==
    /\ data.mem_idx = 0
    /\ data.expr.op = "i32.const"
    /\ data.expr.c + Len(data.bytes) <= PAGE_SIZE

SegmentSucceeds(segment) ==
    IF "table_idx" \in DOMAIN segment THEN ElementSucceeds(segment)
    ELSE DataSucceeds(segment)

\* Segment lists with at most one failing segment (initialization stops at
\* the first failure, so a second one is never reached).
SegmentLists(items, n) ==
    {s \in SeqsUpTo(items, n) :
        Cardinality({k \in 1..Len(s) : ~SegmentSucceeds(s[k])}) <= 1}

InitSegments ==
    \E e \in SegmentLists(Elements, MaxSegments),
       d \in SegmentLists(Datas, MaxSegments) :
        \E st \in {None, Some(1), Some(2)} :
            /\ payload = [SegmentStore EXCEPT !.elem = e, !.data = d, !.start = st]
            /\ file = WellFormedFile(payload)
            /\ resolver = <<"h1">>
            /\ access = None

\* Modules whose global initializers vary, and modules whose function and code
\* sections disagree in length (RawModule::new takes any two vectors).
GlobalDefs ==
    {[global_type |-> "i32", init_expr |-> I32Const(5)],
     [global_type |-> "i32", init_expr |-> I64Const(5)],
     [global_type |-> "i64", init_expr |-> I64Const(5)],
     [global_type |-> "i32", init_expr |-> GlobalGet(0)],
     [global_type |-> "i32", init_expr |-> GlobalGet(1)],
     [global_type |-> "i32", init_expr |-> [op |-> "i32.add"]]}

InitGlobals ==
    \E k \in 0..MaxGlobals :
        \E i \in {<<>>, <<GlobalImport>>}, g \in [1..k -> GlobalDefs] :
            /\ payload = [EmptyContent EXCEPT !.imports = i, !.globals = g]
            /\ file = WellFormedFile(payload)
            /\ resolver = AllResolve(payload)
            /\ access = None

InitFunctions ==
    \E k \in 0..MaxLocals, n \in 0..MaxLocals :
        \E t \in [1..k -> 0..2] :
            /\ payload = [EmptyContent EXCEPT !.types = <<"T0", "T1">>, !.typeidx = t,
                                              !.funcs = Prefix(Bodies, n)]
            /\ file = WellFormedFile(payload)
            /\ resolver = AllResolve(payload)
            /\ access = None

\* Modules whose table and memory are the host's, with element and data
\* segments that overlap, and some that fail.
SharedStore ==
    [EmptyContent EXCEPT
        !.types = <<"T0">>, !.imports = <<TableImport, MemImport>>,
        !.typeidx = <<0, 0>>, !.funcs = <<"f0", "f1">>]

SharedElements ==
    {[table_idx |-> 0, expr |-> I32Const(0), func_indices |-> <<0>>],
     [table_idx |-> 0, expr |-> I32Const(0), func_indices |-> <<1, 0>>],
     [table_idx |-> 0, expr |-> I64Const(0), func_indices |-> <<0>>]}

SharedDatas ==
    {[mem_idx |-> 0, expr |-> I32Const(0), bytes |-> <<1, 2>>],
     [mem_idx |-> 0, expr |-> I32Const(1), bytes |-> <<3>>],
     [mem_idx |-> 0, expr |-> I32Const(PAGE_SIZE), bytes |-> <<9>>]}

InitShared ==
    \E e \in SegmentLists(SharedElements, MaxSegments),
       d \in SegmentLists(SharedDatas, MaxSegments) :
        \E st \in {None, Some(0)} :
            /\ payload = [SharedStore EXCEPT !.elem = e, !.data = d, !.start = st]
            /\ file = WellFormedFile(payload)
            /\ resolver = <<"h1", "h2">>
            /\ access = None

\* One store access on the module of ExportStore, by each accessor and with
\* indices inside and outside each sequence.
InitAccess ==
    \E op \in AccessorNames, idx \in 0..MaxIndex :
        /\ payload = ExportStore
        /\ file = WellFormedFile(payload)
        /\ resolver = <<"h1", "h2">>
        /\ access = Some([op |-> op, idx |-> idx])

Init ==
    /\ \/ InitLayout
       \/ InitImports
       \/ InitLocals
       \/ InitExports
       \/ InitSegments
       \/ InitGlobals
       \/ InitFunctions
       \/ InitAccess
       \/ InitShared
    /\ pc = "read_header"
    /\ pos = 0
    /\ current_section_type = None
    /\ module_builder = <<>>
    /\ raw_module = None
    /\ ret_module = EmptyModule
    /\ entities = <<>>
    /\ trace = <<>>
    /\ result = NoResult

Next ==
    \/ ReadHeader
    \/ ReadSection
    \/ ReadEnd
    \/ ResolveImports
    \/ AddFunctions
    \/ AddTables
    \/ AddMemories
    \/ AddGlobals
    \/ CollectExports
    \/ AddFuncTypes
    \/ PreExecuteValidate
    \/ InitializeTableElements
    \/ InitializeMemory
    \/ RunStart
    \/ CallAccessor

Spec == Init /\ [][Next]_vars

----------------------------------------------------------------------------
(* Properties of RawModule::read *)

NonCustom(section) == section.id # CustomSection

SectionIds(sections) == [k \in 1..Len(sections) |-> sections[k].id]

AllWellFormed(sections) == \A k \in 1..Len(sections) : sections[k].body = "ok"

\* Some non-custom section is followed later by one of smaller id.
OutOfOrder(sections) ==
    \E i, j \in 1..Len(sections) :
        /\ i < j
        /\ NonCustom(sections[i]) /\ NonCustom(sections[j])
        /\ sections[j].id < sections[i].id

\* C1 (header gate): an input whose first 8 bytes are not the magic and
\* version is rejected with an error; no section is read or processed, no
\* RawModule is made and no resolver operation is called.
C1_HeaderGate ==
    file.header # EXPECTED_HEADER =>
        /\ pc \in {"read_header", "done"}
        /\ pos = 0
        /\ module_builder = <<>>
        /\ raw_module = None
        /\ trace = <<>>
        /\ pc = "done" => result.kind = "Err"

C1_Witness ==
    /\ pc = "done"
    /\ Len(file.header) = HEADER_LENGTH
    /\ file.header # EXPECTED_HEADER
    /\ SubSeq(file.header, 1, 4) = SubSeq(EXPECTED_HEADER, 1, 4)
    /\ file.sections # <<>>
    /\ result = Err("Invalid module header")

\* C2 (section-order monotonicity), as claimed: a file of well-formed sections
\* in which a non-custom section follows one of greater id makes read return
\* the error "Invalid section order", and no RawModule.
C2_OrderErrorReturned ==
    (/\ pc = "done"
     /\ file.header = EXPECTED_HEADER
     /\ AllWellFormed(file.sections)
     /\ \A k \in 1..Len(file.sections) : file.sections[k].id \in CustomSection..DataSection
     /\ OutOfOrder(file.sections))
        => /\ result = Err("Invalid section order")
           /\ raw_module = None

\* C3 (custom-section transparency): whatever custom sections the consumed
\* part of the file holds, and wherever they stand, the section-order state
\* and the process_section calls are those of the file without them, and so
\* is the RawModule made at the end of the input.
C3_CustomTransparent ==
    LET consumed == SubSeq(file.sections, 1, pos)
        stripped == SectionIds(SelectSeq(consumed, NonCustom))
    IN  (pc = "section_loop" \/ raw_module # None) =>
            /\ module_builder = stripped
            /\ current_section_type =
                   Some(IF stripped = <<>> THEN TypeSection ELSE stripped[Len(stripped)])
            /\ raw_module # None => raw_module = Some(make_module(stripped, payload))

C3_Witness ==
    /\ pc = "done"
    /\ result.kind = "Ok"
    /\ \E i, j, k \in 1..Len(file.sections) :
          /\ i < j /\ j < k
          /\ NonCustom(file.sections[i])
          /\ ~NonCustom(file.sections[j])
          /\ NonCustom(file.sections[k])
    /\ Len(module_builder) = 2
    /\ Len(ret_module.functions) = 1

\* C4 (whole-section consumption), as claimed: when the decoder of a
\* non-custom section leaves bytes of the section unread, read returns the
\* error "Failed to read whole section"; no later section is read and no
\* RawModule is made.
C4_ShortReadErrorReturned ==
    (/\ pc = "done"
     /\ raw_module = None
     /\ file.header = EXPECTED_HEADER
     /\ pos < Len(file.sections)
     /\ NonCustom(file.sections[pos + 1])
     /\ file.sections[pos + 1].body = "short"
     /\ current_section_type # None)
        => result = Err("Failed to read whole section")

----------------------------------------------------------------------------
(* Properties of Module::resolve_raw_module *)

Events(kind) == SelectSeq(trace, LAMBDA e : e.ev = kind)

PipelineSteps ==
    <<"resolve_imports", "add_functions", "add_tables", "add_memories", "add_globals",
      "collect_exports", "add_func_types", "pre_execute_validate",
      "initialize_table_elements", "initialize_memory", "start">>

StepIndex(name) == CHOOSE k \in 1..Len(PipelineSteps) : PipelineSteps[k] = name

\* The names of the steps that completed, in the order they completed.
StepsDone == [k \in 1..Len(Events("step")) |-> Events("step")[k].name]

\* The step a trace entry belongs to.
EventStep(e) ==
    CASE e.ev = "resolve" -> StepIndex("resolve_imports")
      [] e.ev = "set_entries" -> StepIndex("initialize_table_elements")
      [] e.ev = "set_data" -> StepIndex("initialize_memory")
      [] e.ev = "call" -> StepIndex("start")
      [] e.ev = "step" -> StepIndex(e.name)
      [] e.ev \in {"borrow", "release"} -> StepIndex(e.by)

\* The errors each step can end with.
StepErrors ==
    <<{"Function import has invalid type index", "import not found"},
      {"Function has invalid type index"},
      {}, {},
      {"Global index out of range", "invalid constant expression", "global type mismatch"},
      {"Export has invalid index"},
      {},
      {"Too many tables", "Too many memoryies"},
      {"Table initializer table idx out of range", "Function index out of range",
       "Type mismatch in offset expression", "Global index out of range",
       "invalid constant expression"},
      {"Memory initializer mem idx out of range", "Type mismatch in offset expression",
       "Global index out of range", "invalid constant expression",
       "data segment does not fit"},
      {"Start function not found", "trap"}>>

Instantiated == pc = "done" /\ raw_module # None

\* C5 (all-or-nothing instantiation): resolve_raw_module ends either with
\* Ok(module), every step of the pipeline having completed, or with an error
\* of the first step that did not complete, every step before it having
\* completed and no step after it having run; an error carries no module.
C5_AllOrNothing ==
    Instantiated =>
        LET n == Len(StepsDone)
        IN  /\ StepsDone = Prefix(PipelineSteps, n)
            /\ \/ /\ result.kind = "Ok"
                  /\ result.value = ret_module
                  /\ n = Len(PipelineSteps)
               \/ /\ result.kind = "Err"
                  /\ DOMAIN result = {"kind", "msg"}
                  /\ n < Len(PipelineSteps)
                  /\ result.msg \in StepErrors[n + 1]
                  /\ \A k \in 1..Len(trace) : EventStep(trace[k]) <= n + 1
                  /\ n + 1 < StepIndex("collect_exports") => ret_module.exports = <<>>
                  /\ n + 1 < StepIndex("add_func_types") => ret_module.func_types = <<>>

C5_Witness ==
    /\ Instantiated
    /\ result = Err("Function index out of range")
    /\ Len(Events("set_entries")) = 1
    /\ Raw.data # <<>>
    /\ Raw.start # None

\* The positions of the imports of one descriptor kind, in declaration order.
ImportsOf(imports, desc) ==
    SelectSeq([i \in 1..Len(imports) |-> i], LAMBDA i : imports[i].desc = desc)

MinLen(a, b) == IF Len(a) < Len(b) THEN Len(a) ELSE Len(b)

\* Entries [0, k) of `items` are the handles the resolver returned for the
\* imports at `imps`, in that order, and `items` has n more entries.
ImportsFirst(items, imps, n) ==
    /\ Len(items) = Len(imps) + n
    /\ \A a \in 1..Len(imps) : items[a] = HostHandle(resolver[imps[a]])
    /\ \A j \in 1..n :
          /\ items[Len(imps) + j].origin = "local"
          /\ items[Len(imps) + j].def = j - 1

\* C6 (imports-first indexing): after a successful instantiation each kind's
\* sequence holds the resolver's handles for the imports of that kind in
\* declaration order, then the local entities in definition order, each made
\* from its own definition.
C6_ImportsFirst ==
    (Instantiated /\ result.kind = "Ok") =>
        LET m == result.value
            kf == Len(ImportsOf(Raw.imports, "TypeIdx"))
            kt == Len(ImportsOf(Raw.imports, "TableType"))
            km == Len(ImportsOf(Raw.imports, "MemType"))
            kg == Len(ImportsOf(Raw.imports, "GlobalType"))
        IN  /\ ImportsFirst(m.functions, ImportsOf(Raw.imports, "TypeIdx"),
                            MinLen(Raw.typeidx, Raw.funcs))
            /\ ImportsFirst(m.tables, ImportsOf(Raw.imports, "TableType"), Len(Raw.tables))
            /\ ImportsFirst(m.memories, ImportsOf(Raw.imports, "MemType"), Len(Raw.mems))
            /\ ImportsFirst(m.globals, ImportsOf(Raw.imports, "GlobalType"),
                            Len(Raw.globals))
            /\ \A j \in 1..MinLen(Raw.typeidx, Raw.funcs) :
                  m.functions[kf + j].body = Raw.funcs[j]
            /\ \A j \in 1..Len(Raw.tables) : m.tables[kt + j].ty = Raw.tables[j]
            /\ \A j \in 1..Len(Raw.mems) : m.memories[km + j].ty = Raw.mems[j]
            /\ \A j \in 1..Len(Raw.globals) :
                  m.globals[kg + j].ty = Raw.globals[j].global_type

C6_Witness ==
    /\ Instantiated
    /\ result.kind = "Ok"
    /\ Len(Raw.imports) = 2
    /\ Len(ret_module.functions) = 4
    /\ ret_module.functions[1] = HostHandle("h2")
    /\ ret_module.functions[2] = HostHandle("h1")
    /\ ret_module.functions[4].body = "f1"

NumTables(raw) == Len(ImportsOf(raw.imports, "TableType")) + Len(raw.tables)
NumMemories(raw) == Len(ImportsOf(raw.imports, "MemType")) + Len(raw.mems)

\* C7 (at most one table, at most one memory): a module whose imported and
\* local tables, or memories, number two or more is not instantiated, and a
\* Module that is returned has at most one table and at most one memory.
C7_AtMostOne ==
    Instantiated =>
        /\ result.kind = "Ok" =>
              /\ Len(result.value.tables) <= 1
              /\ Len(result.value.memories) <= 1
        /\ (NumTables(Raw) >= 2 \/ NumMemories(Raw) >= 2) => result.kind = "Err"

C7_Witness ==
    /\ Instantiated
    /\ NumTables(Raw) <= 1
    /\ NumMemories(Raw) = 2
    /\ Len(ImportsOf(Raw.imports, "MemType")) = 1
    /\ result = Err("Too many memoryies")

\* What the j-th export of the list names: the kind and the handle at its index.
ExportTarget(m, export) ==
    [kind |-> ExportKind(export.d.kind),
     handle |-> At(ExportItems(m, export.d.kind), export.d.idx)]

ExportNamesOf(exports) == {exports[j].nm : j \in 1..Len(exports)}

\* No later export of the list carries the j-th export's name.
LastOfItsName(exports, j) ==
    \A k \in (j + 1)..Len(exports) : exports[k].nm # exports[j].nm

\* C8 (export-map completeness), as claimed: after a successful
\* instantiation exports[name] is the entity at the export's index, for every
\* export of the list, two exports of one name included.
C8_EveryExportMapped ==
    (Instantiated /\ result.kind = "Ok") =>
        \A j \in 1..Len(Raw.exports) :
            /\ Raw.exports[j].nm \in DOMAIN result.value.exports
            /\ result.value.exports[Raw.exports[j].nm]
                   = ExportTarget(result.value, Raw.exports[j])

\* C8, amended: after a successful instantiation the export map's keys are
\* the names of the list, and exports[name] is the entity at the index of the
\* last export carrying that name (an insert replaces an earlier one).
C8_LastExportMapped ==
    (Instantiated /\ result.kind = "Ok") =>
        /\ DOMAIN result.value.exports = ExportNamesOf(Raw.exports)
        /\ \A j \in 1..Len(Raw.exports) :
              LastOfItsName(Raw.exports, j) =>
                  result.value.exports[Raw.exports[j].nm]
                      = ExportTarget(result.value, Raw.exports[j])

C8_Witness ==
    /\ Instantiated
    /\ result.kind = "Ok"
    /\ Len(Raw.exports) = 2
    /\ Raw.exports[1].nm = Raw.exports[2].nm
    /\ Raw.exports[1].d = [kind |-> "Func", idx |-> 0]
    /\ Raw.exports[2].d = [kind |-> "Global", idx |-> 1]
    /\ result.value.exports[Raw.exports[1].nm].kind = "Global"
    /\ result.value.exports[Raw.exports[1].nm].handle.origin = "local"

\* Every step before the start step completed.
StartReached == Len(StepsDone) >= StepIndex("start") - 1

\* Every element and data segment of the module was written.
SegmentWritesDone ==
    /\ Len(Events("set_entries")) = Len(Raw.elem)
    /\ Len(Events("set_data")) = Len(Raw.data)
    /\ \A k \in 1..Len(Events("set_data")) : Events("set_data")[k].applied

\* C9 (start execution), as claimed: with start = Some(s) and every earlier
\* step successful, a function is invoked exactly once during instantiation.
C9_StartInvokedOnce ==
    (Instantiated /\ Raw.start # None /\ StartReached) => Len(Events("call")) = 1

\* C9, amended: with start = Some(s), every earlier step successful and s an
\* index of `functions`, functions[s] is invoked exactly once, with an empty
\* stack, after every element and data segment was written, and a trap is
\* the error returned (no Module); with s out of range nothing is invoked and
\* the error is "Start function not found"; with start = None, and when an
\* earlier step fails, nothing is invoked.
C9_StartExecution ==
    Instantiated =>
        LET calls == Events("call")
        IN  IF Raw.start # None /\ StartReached
            THEN IF Raw.start[1] < Len(ret_module.functions)
                 THEN /\ Len(calls) = 1
                      /\ calls[1].callee = At(ret_module.functions, Raw.start[1])
                      /\ calls[1].stack = <<>>
                      /\ SegmentWritesDone
                      /\ \A k \in 1..Len(trace) :
                            trace[k].ev \in {"set_entries", "set_data"} =>
                                \E c \in (k + 1)..Len(trace) : trace[c].ev = "call"
                      /\ result = IF calls[1].traps THEN Err("trap") ELSE Ok(ret_module)
                 ELSE /\ calls = <<>>
                      /\ result = Err("Start function not found")
            ELSE calls = <<>>

C9_Witness ==
    /\ Instantiated
    /\ Raw.start = Some(1)
    /\ Len(Events("set_entries")) = 2
    /\ Len(Events("set_data")) = 1
    /\ Len(Events("call")) = 1
    /\ Events("call")[1].callee.body = "f1"
    /\ result = Err("trap")

\* The resolver call resolve_imports makes for the i-th import.
ResolverCall(imports, i) ==
    [ev |-> "resolve",
     op |-> CASE imports[i].desc = "TypeIdx" -> "resolve_function"
              [] imports[i].desc = "TableType" -> "resolve_table"
              [] imports[i].desc = "MemType" -> "resolve_memory"
              [] imports[i].desc = "GlobalType" -> "resolve_global",
     import |-> i]

\* C10 (resolver call discipline), as claimed: an instantiation calls the
\* resolver exactly once per import, in declaration order, with the operation
\* of the import's kind.
C10_OncePerImport ==
    Instantiated =>
        Events("resolve") = [i \in 1..Len(Raw.imports) |-> ResolverCall(Raw.imports, i)]

\* C10, amended: the resolver calls of an instantiation are those of the
\* first c imports, one each, in declaration order, with the operation of the
\* import's kind; c is the number of imports when the import step completes,
\* and otherwise the import step stopped at the c-th import, which the
\* resolver failed on, or before import c+1, a function import whose type
\* index is out of range; no resolver call follows any other collaborator call
\* or completed step.
C10_ResolverDiscipline ==
    raw_module # None =>
        LET calls == Events("resolve")
            c == Len(calls)
            imports == Raw.imports
        IN  /\ c <= Len(imports)
            /\ calls = [i \in 1..c |-> ResolverCall(imports, i)]
            /\ \A k \in 1..Len(trace) : trace[k].ev = "resolve" => k <= c
            /\ pc # "resolve_imports" =>
                  IF StepsDone # <<>>
                  THEN c = Len(imports)
                  ELSE /\ pc = "done"
                       /\ result.kind = "Err"
                       /\ \/ c >= 1 /\ resolver[c] = "fail"
                          \/ /\ c < Len(imports)
                             /\ imports[c + 1].desc = "TypeIdx"
                             /\ imports[c + 1].type_index >= Len(Raw.types)
                       /\ \A i \in 1..c : i < c => resolver[i] # "fail"

C10_Witness ==
    /\ Instantiated
    /\ result.kind = "Ok"
    /\ Len(Raw.imports) = 2
    /\ Events("resolve") = <<[ev |-> "resolve", op |-> "resolve_memory", import |-> 1],
                             [ev |-> "resolve", op |-> "resolve_function", import |-> 2]>>
    /\ Len(trace) > 2

\* The step `name` of the pipeline ran: it completed, or it is the step the
\* pipeline ended in.
StepRan(name) ==
    /\ raw_module # None
    /\ \/ Len(StepsDone) >= StepIndex(name)
       \/ pc = "done" /\ Len(StepsDone) = StepIndex(name) - 1

StepSucceeded(name) == Len(StepsDone) >= StepIndex(name)

ConstOffset(segment) == segment.expr.op = "i32.const"

FuncIndicesValid(m, element) ==
    \A k \in 1..Len(element.func_indices) : element.func_indices[k] < Len(m.functions)

\* The Table::set_entries call that places an element segment at its constant.
ElementWrite(m, element) ==
    [ev |-> "set_entries", target |-> At(m.tables, element.table_idx),
     offset |-> element.expr.c,
     payload |-> [k \in 1..Len(element.func_indices) |->
                      At(m.functions, element.func_indices[k])]]

\* The Memory::set_data call that places a data segment at its constant.
DataWrite(m, data) ==
    [ev |-> "set_data", target |-> At(m.memories, data.mem_idx),
     offset |-> data.expr.c, payload |-> data.bytes,
     applied |-> data.expr.c + Len(data.bytes) <= MemorySize(At(m.memories, data.mem_idx))]

\* The segments initialization got to: those written, and the one after them.
ElementsReached ==
    IF StepRan("initialize_table_elements")
    THEN {j \in 1..Len(Raw.elem) : j <= Len(Events("set_entries")) + 1}
    ELSE {}

\* C11 (constant offset placement), as claimed: every element segment that
\* initialization gets to, whose offset is i32.const c and whose table index
\* is valid, is written by one set_entries call with offset c and its payload.
C11_EveryConstSegmentWritten ==
    \A j \in ElementsReached :
        (ConstOffset(Raw.elem[j]) /\ Raw.elem[j].table_idx < Len(ret_module.tables)) =>
            /\ j <= Len(Events("set_entries"))
            /\ Events("set_entries")[j] = ElementWrite(ret_module, Raw.elem[j])

\* C11, amended: the write calls of initialization are one per segment, in
\* segment order, for the segments before the first that fails; a segment
\* with offset i32.const c, a valid target index and (element segments) only
\* valid function indices is written by one call with offset c and its full
\* payload in order, and a data segment then occupies [c, c+len) when it fits
\* the memory (set_data fails otherwise); a segment whose offset is not an
\* i32 fails with "Type mismatch in offset expression" and writes nothing; an
\* element segment with a function index out of range fails with "Function
\* index out of range" and writes nothing.
C11_ConstantOffsetWrites ==
    /\ StepRan("initialize_table_elements") =>
          LET ev == Events("set_entries")
              n == Len(ev)
              elem == Raw.elem
          IN  /\ n <= Len(elem)
              /\ \A j \in 1..n :
                    /\ elem[j].table_idx < Len(ret_module.tables)
                    /\ FuncIndicesValid(ret_module, elem[j])
                    /\ elem[j].expr.op # "i64.const"
                    /\ ConstOffset(elem[j]) => ev[j] = ElementWrite(ret_module, elem[j])
              /\ IF StepSucceeded("initialize_table_elements")
                 THEN n = Len(elem)
                 ELSE /\ n < Len(elem)
                      /\ result.kind = "Err"
                      /\ LET e == elem[n + 1]
                         IN  e.table_idx < Len(ret_module.tables) =>
                               /\ e.expr.op = "i64.const" =>
                                     result = Err("Type mismatch in offset expression")
                               /\ ConstOffset(e) =>
                                     /\ ~FuncIndicesValid(ret_module, e)
                                     /\ result = Err("Function index out of range")
    /\ StepRan("initialize_memory") =>
          LET ev == Events("set_data")
              n == Len(ev)
              data == Raw.data
          IN  /\ n <= Len(data)
              /\ \A j \in 1..n :
                    /\ data[j].mem_idx < Len(ret_module.memories)
                    /\ data[j].expr.op # "i64.const"
                    /\ ConstOffset(data[j]) => ev[j] = DataWrite(ret_module, data[j])
                    /\ j < n => ev[j].applied
              /\ IF StepSucceeded("initialize_memory")
                 THEN n = Len(data) /\ \A j \in 1..n : ev[j].applied
                 ELSE /\ result.kind = "Err"
                      /\ IF n >= 1 /\ ~ev[n].applied
                         THEN result = Err("data segment does not fit")
                         ELSE /\ n < Len(data)
                              /\ LET d == data[n + 1]
                                 IN  /\ ~(ConstOffset(d) /\ d.mem_idx < Len(ret_module.memories))
                                     /\ (d.mem_idx < Len(ret_module.memories)
                                         /\ d.expr.op = "i64.const") =>
                                           result = Err("Type mismatch in offset expression")

C11_Witness ==
    /\ Instantiated
    /\ Len(Raw.elem) = 2 /\ Len(Raw.data) = 2
    /\ Len(Events("set_entries")) = 2
    /\ Events("set_entries")[1].offset = 2
    /\ Events("set_entries")[1].payload[1].body = "f1"
    /\ Len(Events("set_data")) = 1
    /\ Events("set_data")[1].offset = 16
    /\ Events("set_data")[1].payload = <<222, 173, 190, 239>>
    /\ Events("set_data")[1].applied
    /\ Raw.data[2].expr.op = "i64.const"
    /\ result = Err("Type mismatch in offset expression")

\* The least element of a non-empty set of positions.
First(S) == CHOOSE j \in S : \A k \in S : j <= k

\* The positions whose index is not an index of its destination sequence.
BadImports == {i \in 1..Len(Raw.imports) :
                  /\ Raw.imports[i].desc = "TypeIdx"
                  /\ Raw.imports[i].type_index >= Len(Raw.types)}

BadFunctions == {j \in 1..MinLen(Raw.typeidx, Raw.funcs) : Raw.typeidx[j] >= Len(Raw.types)}

BadExports == {j \in 1..Len(Raw.exports) :
                  Raw.exports[j].d.idx >= Len(ExportItems(ret_module, Raw.exports[j].d.kind))}

BadElements == {j \in 1..Len(Raw.elem) :
                   \/ Raw.elem[j].table_idx >= Len(ret_module.tables)
                   \/ ~FuncIndicesValid(ret_module, Raw.elem[j])}

BadDatas == {j \in 1..Len(Raw.data) : Raw.data[j].mem_idx >= Len(ret_module.memories)}

BadStart == Raw.start # None /\ Raw.start[1] >= Len(ret_module.functions)

\* The handles the module, its export map and the collaborator calls hold.
HandlesHeld ==
    {ret_module.functions[k] : k \in 1..Len(ret_module.functions)}
    \cup {ret_module.tables[k] : k \in 1..Len(ret_module.tables)}
    \cup {ret_module.memories[k] : k \in 1..Len(ret_module.memories)}
    \cup {ret_module.globals[k] : k \in 1..Len(ret_module.globals)}
    \cup {ret_module.exports[nm].handle : nm \in DOMAIN ret_module.exports}
    \cup {trace[k].target : k \in {i \in 1..Len(trace) :
                                      trace[i].ev \in {"set_entries", "set_data"}}}
    \cup UNION {{trace[k].payload[a] : a \in 1..Len(trace[k].payload)} :
                   k \in {i \in 1..Len(trace) : trace[i].ev = "set_entries"}}
    \cup {trace[k].callee : k \in {i \in 1..Len(trace) : trace[i].ev = "call"}}

\* C12 (index checking): no sequence is indexed out of bounds; a step that
\* gets to an index that is out of range (type index of a function import or
\* of a local function, export index, table, function or memory index of a
\* segment, start index) ends instantiation with that check's error, before
\* the entity is used; a Module is returned only when every index used is in
\* range.
C12_IndexChecking ==
    /\ OutOfBounds \notin HandlesHeld
    /\ Instantiated =>
          /\ result.kind = "Ok" =>
                /\ BadImports = {} /\ BadFunctions = {} /\ BadExports = {}
                /\ BadElements = {} /\ BadDatas = {} /\ ~BadStart
          /\ (BadImports # {} /\ \A i \in 1..First(BadImports) : resolver[i] # "fail") =>
                /\ result = Err("Function import has invalid type index")
                /\ Len(Events("resolve")) = First(BadImports) - 1
          /\ (StepRan("add_functions") /\ BadFunctions # {}) =>
                /\ result = Err("Function has invalid type index")
                /\ Len(ret_module.functions)
                       = Len(ImportsOf(Raw.imports, "TypeIdx")) + First(BadFunctions) - 1
          /\ (StepRan("collect_exports") /\ BadExports # {}) =>
                /\ result = Err("Export has invalid index")
                /\ DOMAIN ret_module.exports
                       = {Raw.exports[j].nm : j \in 1..(First(BadExports) - 1)}
          /\ (StepRan("initialize_table_elements") /\ BadElements # {}) =>
                LET j == First(BadElements)
                    n == Len(Events("set_entries"))
                IN  /\ ~StepSucceeded("initialize_table_elements")
                    /\ n < j
                    /\ (n = j - 1 /\ Raw.elem[j].table_idx >= Len(ret_module.tables)) =>
                          result = Err("Table initializer table idx out of range")
                    /\ (n = j - 1 /\ Raw.elem[j].table_idx < Len(ret_module.tables)
                        /\ ConstOffset(Raw.elem[j])) =>
                          result = Err("Function index out of range")
          /\ (StepRan("initialize_memory") /\ BadDatas # {}) =>
                LET j == First(BadDatas)
                    n == Len(Events("set_data"))
                IN  /\ ~StepSucceeded("initialize_memory")
                    /\ n < j
                    /\ (n = j - 1 /\ (n >= 1 => Events("set_data")[n].applied)) =>
                          result = Err("Memory initializer mem idx out of range")
          /\ (StepRan("start") /\ BadStart) =>
                /\ result = Err("Start function not found")
                /\ Events("call") = <<>>

C12_Witness ==
    /\ Instantiated
    /\ Len(Raw.exports) = 2
    /\ Raw.exports[1].d = [kind |-> "Table", idx |-> 0]
    /\ Raw.exports[2].d = [kind |-> "Func", idx |-> Len(ret_module.functions)]
    /\ Raw.exports[1].nm # Raw.exports[2].nm
    /\ DOMAIN ret_module.exports = {Raw.exports[1].nm}
    /\ result = Err("Export has invalid index")

----------------------------------------------------------------------------
(* Properties of the store accessors *)

\* The sequence of the store an accessor reads, and the kind its error names.
AccessorSequence(op, m) ==
    CASE op \in {"global_idx", "global_idx_mut"} -> m.globals
      [] op = "func_type_idx" -> m.func_types
      [] op = "table_idx" -> m.tables
      [] op = "callable_idx" -> m.functions
      [] op \in {"mem_idx", "mem_idx_mut"} -> m.memories

AccessorError(op) ==
    CASE op \in {"global_idx", "global_idx_mut"} -> "Global index out of range"
      [] op = "func_type_idx" -> "FuncType index out of range"
      [] op = "table_idx" -> "Table index out of range"
      [] op = "callable_idx" -> "Callable index out of range"
      [] op \in {"mem_idx", "mem_idx_mut"} -> "Memory index out of range"

\* C13 (store accessors): an accessor called with index i returns the i-th
\* entry of its sequence of the instantiated Module when i is less than the
\* sequence's length, and the error "<kind> index out of range" otherwise;
\* the call leaves every sequence of the store as instantiation returned it.
C13_Accessors ==
    \A k \in 1..Len(trace) :
        trace[k].ev = "access" =>
            LET e == trace[k]
                items == AccessorSequence(e.op, result.value)
            IN  /\ result.kind = "Ok"
                /\ IF e.idx < Len(items)
                   THEN /\ e.res.kind = "Ok"
                        /\ e.res.value.entry = items[e.idx + 1]
                   ELSE e.res = Err(AccessorError(e.op))
                /\ ret_module = result.value

C13_Witness ==
    /\ pc = "done"
    /\ access = None
    /\ Len(Events("access")) = 1
    /\ Events("access")[1].op = "mem_idx"
    /\ Events("access")[1].idx = 0
    /\ Events("access")[1].res.kind = "Ok"
    /\ Events("access")[1].res.value.entry = LocalMemory(0, [min |-> 1])
    /\ Len(ret_module.tables) = 1

----------------------------------------------------------------------------
(* Order of the pipeline *)

\* The number of steps that completed before the k-th entry of the trace.
StepsBefore(k) == Len(SelectSeq(SubSeq(trace, 1, k - 1), LAMBDA e : e.ev = "step"))

\* C14 (pipeline ordering): the steps complete in the order imports, local
\* functions, tables, memories, globals, exports, types, validation, element
\* segments, data segments, start; every collaborator call is made by the one
\* step that is running, all steps before it having completed; element
\* segments are written in segment order and so are data segments; no write
\* and no start call happens unless validation passed, no data segment is
\* written unless every element segment was, and start is not invoked unless
\* every data segment was written.
C14_PipelineOrder ==
    raw_module # None =>
        LET entries == Events("set_entries")
            datas == Events("set_data")
        IN  /\ StepsDone = Prefix(PipelineSteps, Len(StepsDone))
            /\ pc # "done" => pc = PipelineSteps[Len(StepsDone) + 1]
            /\ \A k \in 1..Len(trace) :
                  IF trace[k].ev = "access"
                  THEN StepsBefore(k) = Len(PipelineSteps)
                  ELSE EventStep(trace[k]) = StepsBefore(k) + 1
            /\ Len(entries) <= Len(Raw.elem)
            /\ \A j \in 1..Len(entries) :
                  /\ entries[j].target = At(ret_module.tables, Raw.elem[j].table_idx)
                  /\ entries[j].payload =
                         [a \in 1..Len(Raw.elem[j].func_indices) |->
                              At(ret_module.functions, Raw.elem[j].func_indices[a])]
            /\ Len(datas) <= Len(Raw.data)
            /\ \A j \in 1..Len(datas) :
                  /\ datas[j].target = At(ret_module.memories, Raw.data[j].mem_idx)
                  /\ datas[j].payload = Raw.data[j].bytes
            /\ (entries # <<>> \/ datas # <<>> \/ Events("call") # <<>>) =>
                  /\ StepSucceeded("pre_execute_validate")
                  /\ Len(ret_module.tables) <= 1
                  /\ Len(ret_module.memories) <= 1
            /\ datas # <<>> =>
                  /\ StepSucceeded("initialize_table_elements")
                  /\ Len(entries) = Len(Raw.elem)
            /\ Events("call") # <<>> =>
                  /\ StepSucceeded("initialize_memory")
                  /\ Len(entries) = Len(Raw.elem)
                  /\ Len(datas) = Len(Raw.data)
                  /\ \A j \in 1..Len(datas) : datas[j].applied

C14_Witness ==
    /\ Instantiated
    /\ result.kind = "Ok"
    /\ Len(StepsDone) = Len(PipelineSteps)
    /\ Len(Events("set_entries")) = 2
    /\ Raw.elem[1].func_indices # Raw.elem[2].func_indices
    /\ Len(Events("set_data")) = 2
    /\ Len(Events("call")) = 1

----------------------------------------------------------------------------
(* Global initializers *)

\* C15 (global initializer visibility), as claimed: a local global whose init
\* expression is a global.get of a local (non-imported) global, one defined
\* earlier in the same module included, makes add_globals fail.
C15_LocalGlobalsInvisible ==
    (raw_module # None /\ StepSucceeded("add_globals")) =>
        \A j \in 1..Len(Raw.globals) :
            Raw.globals[j].init_expr.op = "global.get" =>
                Raw.globals[j].init_expr.idx < Len(ImportsOf(Raw.imports, "GlobalType"))

----------------------------------------------------------------------------
(* The end of the section loop *)

\* C16 (no swallowed decode errors), as claimed: read makes a RawModule only
\* when reading the next section header failed for a clean end of input at a
\* section boundary; on any other failure of the header read (a byte that
\* names no section type, more bytes following) it returns an error.
C16_HeaderErrorsReturned ==
    raw_module # None =>
        /\ pos = Len(file.sections)
        /\ read_next_section_header(file.sections, pos) = Err("end of input")

----------------------------------------------------------------------------
(* Local functions *)

\* C17 (local function signatures), as claimed: after a successful
\* instantiation the local callables are as many as funcs, and the j-th wraps
\* body funcs[j] with signature types[typeidx[j]].
C17_LocalFunctionsPaired ==
    (Instantiated /\ result.kind = "Ok") =>
        LET m == result.value
            kf == Len(ImportsOf(Raw.imports, "TypeIdx"))
        IN  /\ Len(m.functions) = kf + Len(Raw.funcs)
            /\ \A j \in 1..Len(Raw.funcs) :
                  /\ m.functions[kf + j].body = Raw.funcs[j]
                  /\ m.functions[kf + j].ty = At(Raw.types, Raw.typeidx[j])

----------------------------------------------------------------------------
(* Borrows *)

BorrowKey(e) == <<e.kind, e.handle>>

\* The handles borrowed at some point of the run.
BorrowKeys == {BorrowKey(trace[i]) : i \in {k \in 1..Len(trace) : trace[k].ev = "borrow"}}

\* The borrows of `key` in `mode` that are held after the first k entries of
\* the trace: those taken less those dropped.
Held(k, mode, key) ==
    Cardinality({i \in 1..k : /\ trace[i].ev = "borrow"
                              /\ trace[i].mode = mode
                              /\ BorrowKey(trace[i]) = key})
    - Cardinality({i \in 1..k : /\ trace[i].ev = "release"
                                /\ trace[i].mode = mode
                                /\ BorrowKey(trace[i]) = key})

NoBorrowHeld(k) ==
    \A key \in BorrowKeys, mode \in {"shared", "exclusive"} : Held(k, mode, key) = 0

\* C18 (borrow discipline during instantiation): at every point each handle
\* has shared borrows only, or one exclusive borrow and no shared one; the
\* exclusive borrow of a write is taken when nothing is borrowed (offset
\* evaluation has dropped its borrows), is of the write's target, and is
\* dropped right after the write; the start callable is borrowed shared, and
\* not exclusively, for the time of its call; nothing stays borrowed when a
\* step completes or when instantiation returns.
C18_BorrowDiscipline ==
    /\ \A k \in 0..Len(trace), key \in BorrowKeys :
          /\ Held(k, "shared", key) >= 0
          /\ Held(k, "exclusive", key) \in {0, 1}
          /\ Held(k, "exclusive", key) = 1 => Held(k, "shared", key) = 0
    /\ \A k \in 1..Len(trace) :
          LET e == trace[k]
          IN  /\ (e.ev = "borrow" /\ e.mode = "exclusive") =>
                    /\ NoBorrowHeld(k - 1)
                    /\ k + 2 <= Len(trace)
                    /\ trace[k + 1].ev \in {"set_entries", "set_data"}
                    /\ trace[k + 2] = Release("exclusive", e.kind, e.handle, e.by)
              /\ e.ev \in {"set_entries", "set_data"} =>
                    /\ Held(k, "exclusive", <<WriteKind(e), e.target>>) = 1
                    /\ \A key \in BorrowKeys :
                          key # <<WriteKind(e), e.target>> =>
                              /\ Held(k, "shared", key) = 0
                              /\ Held(k, "exclusive", key) = 0
              /\ e.ev = "call" =>
                    /\ Held(k, "shared", <<"func", e.callee>>) = 1
                    /\ Held(k, "exclusive", <<"func", e.callee>>) = 0
                    /\ k < Len(trace)
                    /\ trace[k + 1] = Release("shared", "func", e.callee, "start")
              /\ e.ev = "step" => NoBorrowHeld(k)
    /\ pc = "done" => NoBorrowHeld(Len(trace))

C18_Witness ==
    /\ Instantiated
    /\ \E a, b, c, d \in 1..Len(trace) :
          /\ a < b /\ b < c /\ c < d
          /\ trace[a].ev = "borrow" /\ trace[a].mode = "shared"
          /\ trace[a].kind = "global" /\ trace[a].by = "initialize_table_elements"
          /\ trace[b].ev = "borrow" /\ trace[b].mode = "exclusive"
          /\ trace[b].kind = "table" /\ trace[b + 1].ev = "set_entries"
          /\ trace[c].ev = "borrow" /\ trace[c].mode = "exclusive"
          /\ trace[c].kind = "mem" /\ trace[c + 1].ev = "set_data"
          /\ trace[d].ev = "borrow" /\ trace[d].mode = "shared"
          /\ trace[d].kind = "func" /\ trace[d + 1].ev = "call"

----------------------------------------------------------------------------
(* The section-order state *)

\* C19 (section-order state machine): the expected-section state starts at
\* the type section and is the id of the last non-custom section processed;
\* the ids processed never decrease and may repeat; a non-custom section is
\* passed to process_section exactly when its id is at least the state, and
\* the state is then that id (not its successor); a section of smaller id
\* exhausts the state and is not processed.
C19_SectionOrderState ==
    LET consumed == SubSeq(file.sections, 1, pos)
        ids == SectionIds(SelectSeq(consumed, NonCustom))
        last == IF ids = <<>> THEN TypeSection ELSE ids[Len(ids)]
    IN  /\ \A k \in 1..(Len(ids) - 1) : ids[k] <= ids[k + 1]
        /\ (pc = "section_loop" \/ raw_module # None) =>
              /\ module_builder = ids
              /\ current_section_type = Some(last)
        /\ (pc = "done" /\ raw_module = None /\ file.header = EXPECTED_HEADER) =>
              /\ pos < Len(file.sections)
              /\ LET section == file.sections[pos + 1]
                 IN  (NonCustom(section) /\ section.body # "truncated") =>
                        IF section.id < last
                        THEN /\ result = Panic("Sections are in unexpected order")
                             /\ module_builder = ids
                             /\ current_section_type = None
                        ELSE /\ current_section_type = Some(section.id)
                             /\ IF section.body = "bad"
                                THEN /\ result = Err("malformed section")
                                     /\ module_builder = ids
                                ELSE /\ section.body = "short"
                                     /\ result = Panic("Failed to read whole section")
                                     /\ module_builder = Append(ids, section.id)

C19_Witness ==
    /\ raw_module # None
    /\ pos = 3
    /\ module_builder = <<ImportSection, ImportSection, MemorySection>>
    /\ current_section_type = Some(MemorySection)

----------------------------------------------------------------------------
(* The entities behind the handles *)

\* The positions of the trace at which a write to `key` took effect.
AppliedWrites(key) ==
    {k \in 1..Len(trace) : /\ trace[k].ev \in {"set_entries", "set_data"}
                           /\ WriteApplied(trace[k])
                           /\ <<WriteKind(trace[k]), trace[k].target>> = key}

WrittenKeys ==
    {<<WriteKind(trace[k]), trace[k].target>> :
        k \in {i \in 1..Len(trace) : /\ trace[i].ev \in {"set_entries", "set_data"}
                                     /\ WriteApplied(trace[i])}}

WriteRange(k) == trace[k].offset..(trace[k].offset + Len(trace[k].payload) - 1)

\* The last write to `key` that covers cell i.
LastWrite(key, i) ==
    CHOOSE k \in AppliedWrites(key) :
        /\ i \in WriteRange(k)
        /\ \A l \in AppliedWrites(key) : i \in WriteRange(l) => l <= k

\* C20 (no rollback of shared entities): every write of an element or data
\* segment that took effect stays in its table or memory, whatever happens
\* afterwards: when a later segment or the start call fails and
\* resolve_raw_module returns the error, each cell written holds the value of
\* the last write that covered it, in the host's table and memory as in local
\* ones.
C20_NoRollback ==
    /\ DOMAIN entities = WrittenKeys
    /\ \A key \in WrittenKeys :
          /\ DOMAIN entities[key] = UNION {WriteRange(k) : k \in AppliedWrites(key)}
          /\ \A i \in DOMAIN entities[key] :
                LET k == LastWrite(key, i)
                IN  entities[key][i] = trace[k].payload[i - trace[k].offset + 1]

C20_Witness ==
    /\ Instantiated
    /\ result = Err("data segment does not fit")
    /\ Len(Raw.data) = 2
    /\ Len(Events("set_entries")) = 2
    /\ <<"table", HostHandle("h1")>> \in DOMAIN entities
    /\ entities[<<"table", HostHandle("h1")>>][0].body = "f1"
    /\ <<"mem", HostHandle("h2")>> \in DOMAIN entities
    /\ DOMAIN entities[<<"mem", HostHandle("h2")>>] = {0, 1}
    /\ entities[<<"mem", HostHandle("h2")>>][0] = 1
    /\ entities[<<"mem", HostHandle("h2")>>][1] = 2
====
